---- MODULE Spec2Model ----
(***************************************************************************)
(* Model of apps-script-backend.js: the report card grade entry backend.   *)
(* The Grades sheet is a sequence of rows (row 1 is the header row), the   *)
(* web app handlers doPost and doGet are actions over it.                  *)
(***************************************************************************)
EXTENDS Integers, Sequences, FiniteSets, TLC

VARIABLES
    sheetExists,  \* the spreadsheet has a tab named SHEET_NAME
    sheet,        \* the rows of that tab, header row first
    clock,        \* the time the runtime's clock showed when read last, in ticks
    clockReads,   \* how often the clock has been read
    request,      \* the request (or call) handled last
    response,     \* what it returned
    logged,       \* what it handed to Logger.log, in order
    pc,           \* concurrent executions: where each doPost execution stands
    inflight,     \* concurrent executions: the decoded payload of each
    existingRow,  \* concurrent executions: the local existingRow of each
    rowData,      \* concurrent executions: the local rowData of each
    reply         \* concurrent executions: what each returned

vars == <<sheetExists, sheet, clock, clockReads, request, response, logged,
          pc, inflight, existingRow, rowData, reply>>

(***************************************************************************)
(* Bounds of the model.                                                    *)
(***************************************************************************)
\* the clock is read at most this many times
MaxReads == 3
\* number of concurrently running doPost executions
NumProcs == 2

(***************************************************************************)
(* JavaScript values.  A scalar is a tagged record, so that strict         *)
(* equality (===) is equality of records: "" differs from undefined and    *)
(* from 0.  An object with the learning skills is [t |-> "object", m].     *)
(***************************************************************************)
Undefined == [t |-> "undefined", s |-> "", n |-> 0]
Null == [t |-> "null", s |-> "", n |-> 0]
Str(x) == [t |-> "string", s |-> x, n |-> 0]
Num(k) == [t |-> "number", s |-> "", n |-> k]

\* JavaScript truthiness: undefined, null, "" and 0 are falsy
Truthy(v) ==
    \/ v.t = "object"
    \/ v.t = "string" /\ v.s # ""
    \/ v.t = "number" /\ v.n # 0

\* a || b
Or(a, b) == IF Truthy(a) THEN a ELSE b

\* typeof v (typeof null is "object")
TypeOf(v) == IF v.t = "null" THEN "object" ELSE v.t

\* v.length: defined for strings only
Length(v) == IF v.t = "string" THEN Num(Len(v.s)) ELSE Undefined

\* a > b: false when an operand is undefined (NaN)
Greater(a, b) == a.t = "number" /\ b.t = "number" /\ a.n > b.n

\* new Date().toISOString() at clock tick n
Digits == <<"0", "1", "2", "3", "4", "5", "6", "7", "8", "9">>
ToISOString(n) ==
    Str("2025-06-01T09:00:" \o Digits[((n \div 10) % 10) + 1]
                            \o Digits[(n % 10) + 1] \o ".000Z")

RECURSIVE Join(_)
Join(cs) == IF cs = <<>> THEN "" ELSE Head(cs) \o Join(Tail(cs))

RECURSIVE Repeat(_, _)
Repeat(c, n) ==
    IF n = 0 THEN ""
    ELSE LET h == Repeat(c, n \div 2)
         IN  IF n % 2 = 0 THEN h \o h ELSE h \o h \o c

(***************************************************************************)
(* Configuration.                                                          *)
(***************************************************************************)
LEARNING_SKILLS ==
    << <<"R","e","s","p","o","n","s","i","b","i","l","i","t","y">>,
       <<"O","r","g","a","n","i","z","a","t","i","o","n">>,
       <<"I","n","d","e","p","e","n","d","e","n","t"," ","W","o","r","k">>,
       <<"C","o","l","l","a","b","o","r","a","t","i","o","n">>,
       <<"I","n","i","t","i","a","t","i","v","e">>,
       <<"S","e","l","f","-","R","e","g","u","l","a","t","i","o","n">> >>

SkillNames == [i \in 1..Len(LEARNING_SKILLS) |-> Join(LEARNING_SKILLS[i])]
SkillSet == {SkillNames[i] : i \in 1..Len(SkillNames)}

\* obj[k] of a skills object: a missing property reads as undefined
Prop(obj, k) == IF k \in DOMAIN obj.m THEN obj.m[k] ELSE Undefined

(***************************************************************************)
(* getHeaders: the eight fixed columns, the skills, Comment, Last Modified.*)
(***************************************************************************)
FixedHeaders ==
    << <<"T","i","m","e","s","t","a","m","p">>,
       <<"T","e","a","c","h","e","r"," ","E","m","a","i","l">>,
       <<"T","e","a","c","h","e","r"," ","N","a","m","e">>,
       <<"C","o","u","r","s","e">>,
       <<"S","t","u","d","e","n","t"," ","N","a","m","e">>,
       <<"P","e","r","c","e","n","t","a","g","e"," ","M","a","r","k">>,
       <<"C","l","a","s","s","e","s"," ","M","i","s","s","e","d">>,
       <<"T","i","m","e","s"," ","L","a","t","e">> >>

HeaderSpellings ==
    FixedHeaders \o LEARNING_SKILLS
        \o << <<"C","o","m","m","e","n","t">>,
              <<"L","a","s","t"," ","M","o","d","i","f","i","e","d">> >>

GetHeaders == [i \in 1..Len(HeaderSpellings) |-> Str(Join(HeaderSpellings[i]))]

NumCols == Len(HeaderSpellings)

(***************************************************************************)
(* rowToObject: header.toLowerCase().replace(/ /g, '_') names the key of   *)
(* every column that is not a learning skill.                              *)
(***************************************************************************)
UpperCase == <<"A","B","C","D","E","F","G","H","I","J","K","L","M",
               "N","O","P","Q","R","S","T","U","V","W","X","Y","Z">>
LowerCase == <<"a","b","c","d","e","f","g","h","i","j","k","l","m",
               "n","o","p","q","r","s","t","u","v","w","x","y","z">>

ToLowerChar(c) ==
    IF \E i \in 1..Len(UpperCase) : UpperCase[i] = c
    THEN LowerCase[CHOOSE i \in 1..Len(UpperCase) : UpperCase[i] = c]
    ELSE c

\* the characters of a header string
Chars(h) ==
    CHOOSE cs \in {HeaderSpellings[i] : i \in 1..Len(HeaderSpellings)} : Join(cs) = h

ToKey(h) ==
    LET cs == Chars(h)
        lower == [i \in 1..Len(cs) |-> ToLowerChar(cs[i])]
    IN  Join([i \in 1..Len(cs) |-> IF lower[i] = " " THEN "_" ELSE lower[i]])

\* the key of every header, computed once
HeaderKeys == [h \in {GetHeaders[i].s : i \in 1..NumCols} |-> ToKey(h)]

HeaderKey(h) == HeaderKeys[h]

\* row[i]: undefined past the end of the row
Cell(row, i) == IF i \in DOMAIN row THEN row[i] ELSE Undefined

\* the loop of rowToObject from column i on: obj and skills as built so far
RECURSIVE RowToObjectFrom(_, _, _, _, _)
RowToObjectFrom(headers, row, i, obj, skills) ==
    IF i > Len(headers)
    THEN IF DOMAIN skills = {} THEN obj
         ELSE ("skills" :> [t |-> "object", m |-> skills]) @@ obj
    ELSE IF headers[i].s \in SkillSet
         THEN RowToObjectFrom(headers, row, i + 1, obj,
                              (headers[i].s :> Cell(row, i)) @@ skills)
         ELSE RowToObjectFrom(headers, row, i + 1,
                              (HeaderKey(headers[i].s) :> Cell(row, i)) @@ obj,
                              skills)

RowToObject(headers, row) == RowToObjectFrom(headers, row, 1, <<>>, <<>>)

\* entry.k: a missing property reads as undefined
Field(entry, k) == IF k \in DOMAIN entry THEN entry[k] ELSE Undefined

(***************************************************************************)
(* getOrCreateSheet / setupSheetHeaders: a missing tab is inserted, and a  *)
(* tab with no rows gets the header row.                                   *)
(***************************************************************************)
SetupSheetHeaders(sh) ==
    IF Len(sh) = 0 THEN <<GetHeaders>> ELSE [sh EXCEPT ![1] = GetHeaders]

GetOrCreateSheet(exists, sh) ==
    IF ~exists THEN SetupSheetHeaders(<<>>)
    ELSE IF Len(sh) = 0 THEN SetupSheetHeaders(sh)
    ELSE sh

(***************************************************************************)
(* findStudentRow: the 1-indexed row number of the first data row whose    *)
(* Student Name and Course cells strictly equal the arguments, 0 if none.  *)
(***************************************************************************)
courseCol == 3
studentCol == 4

\* findStudentRow comparing the Student Name cell alone
FindStudentRowByStudent(sh, studentName, courseName) ==
    LET hits == {r \in 2..Len(sh) : sh[r][studentCol + 1] = studentName}
    IN  IF hits = {} THEN 0
        ELSE CHOOSE r \in hits : \A q \in hits : r <= q

FindStudentRow(sh, studentName, courseName) ==
    LET hits == {r \in 2..Len(sh) :
                    /\ sh[r][studentCol + 1] = studentName
                    /\ sh[r][courseCol + 1] = courseName}
    IN  IF hits = {} THEN 0
        ELSE CHOOSE r \in hits : \A q \in hits : r <= q

(***************************************************************************)
(* saveGradeEntry.                                                         *)
(***************************************************************************)
\* data.skills[skill]: a TypeError when data.skills is undefined or null
SkillsThrow(data) == data.skills.t \in {"undefined", "null"}

SkillRating(data, skill) ==
    IF data.skills.t = "object" THEN Prop(data.skills, skill) ELSE Undefined

\* new Date() of line 127 is evaluated only when data.timestamp is falsy
TimestampReads(data) == IF Truthy(data.timestamp) THEN 0 ELSE 1

\* the clock reads of building the row: line 127 when taken, and line 146
RowReads(data) == TimestampReads(data) + 1

\* between two reads of the clock no tick or one tick has passed
Advance == {0, 1}

\* what n successive reads return when the clock showed tick before them and
\* moved on by elapsed[i] before read i
RECURSIVE ReadTimes(_, _, _)
ReadTimes(tick, elapsed, n) ==
    IF n = 0 THEN <<>>
    ELSE LET before == ReadTimes(tick, elapsed, n - 1)
             last == IF n = 1 THEN tick ELSE before[n - 1]
         IN  Append(before, last + elapsed[n])

\* the clock after those reads
TimeAfter(tick, elapsed, n) ==
    IF n = 0 THEN tick ELSE ReadTimes(tick, elapsed, n)[n]

\* line 127: data.timestamp || new Date().toISOString()
TimestampCell(data, tick) == Or(data.timestamp, ToISOString(tick))

\* the row of lines 126-147, given the value of its first element and the
\* string the new Date() of line 146 gave; the sheet keeps every cell value as
\* it was written
RowData(data, timestamp, lastModified) ==
    << timestamp,
       data.teacher,
       data.teacherName,
       Or(data.course, Str("")),
       data.student,
       Or(data.percentageMark, Str("")),
       Or(data.classesMissed, Str("")),
       Or(data.timesLate, Str("")) >>
    \o [i \in 1..Len(SkillNames) |-> Or(SkillRating(data, SkillNames[i]), Str(""))]
    \o << data.comment, lastModified >>

\* the row saveGradeEntry builds when its clock reads return times
BuiltRow(data, times) ==
    RowData(data, TimestampCell(data, times[1]), ToISOString(times[Len(times)]))

\* a write that removes the found row and appends its replacement
WriteRowMovedToEnd(sh, found, values) ==
    IF found > 0
    THEN Append([i \in 1..(Len(sh) - 1) |-> IF i < found THEN sh[i] ELSE sh[i + 1]],
                values)
    ELSE Append(sh, values)

\* the write of lines 148-156: setValues on the found row, or appendRow
WriteRow(sh, found, values) ==
    IF found > 0 THEN [sh EXCEPT ![found] = values] ELSE Append(sh, values)

SaveResult(found, data) ==
    [success |-> TRUE,
     action |-> IF found > 0 THEN "updated" ELSE "created",
     student |-> data.student,
     course |-> data.course]

\* an error thrown after the given number of clock reads
Thrown(msg, exists, sh, reads) ==
    [threw |-> TRUE, error |-> msg, exists |-> exists, sheet |-> sh,
     result |-> Undefined, reads |-> reads]

StorageFaults == {"none", "open", "write"}

\* the whole of saveGradeEntry when the clock showed tick at its start and
\* moves on by elapsed[i] before its i-th read: what it throws or returns, the
\* tab after it and the number of clock reads it made
SaveGradeEntry(data, exists, sh, tick, elapsed, fault) ==
    IF fault = "open"
    THEN Thrown("Service Spreadsheets failed while accessing document",
                exists, sh, 0)
    ELSE
    LET opened == GetOrCreateSheet(exists, sh) IN
    IF data.t = "null"
    THEN Thrown("Cannot read properties of null (reading 'student')",
                TRUE, opened, 0)
    ELSE
    LET found == FindStudentRow(opened, data.student, data.course) IN
    IF SkillsThrow(data)
    THEN Thrown("Cannot read properties of " \o data.skills.t
                    \o " (reading 'Responsibility')",
                TRUE, opened, TimestampReads(data))
    ELSE IF fault = "write"
    THEN Thrown("Service Spreadsheets timed out while accessing document",
                TRUE, opened, RowReads(data))
    ELSE [threw |-> FALSE, error |-> "", exists |-> TRUE,
          sheet |-> WriteRow(opened, found,
                             BuiltRow(data, ReadTimes(tick, elapsed, RowReads(data)))),
          result |-> SaveResult(found, data), reads |-> RowReads(data)]

(***************************************************************************)
(* getAllEntries, getEntriesByTeacher, getEntriesByStudent.                *)
(***************************************************************************)
GetAllEntries(sh) ==
    IF Len(sh) <= 1 THEN [success |-> TRUE, entries |-> <<>>]
    ELSE [success |-> TRUE,
          entries |-> [i \in 1..(Len(sh) - 1) |-> RowToObject(sh[1], sh[i + 1])]]

IsTeacher(entry, teacherEmail) == Field(entry, "teacher_email") = teacherEmail

IsStudent(entry, studentName) == Field(entry, "student") = studentName

GetEntriesByTeacher(sh, teacherEmail) ==
    [success |-> TRUE,
     entries |-> SelectSeq(GetAllEntries(sh).entries,
                           LAMBDA entry : IsTeacher(entry, teacherEmail))]

GetEntriesByStudent(sh, studentName) ==
    [success |-> TRUE,
     entries |-> SelectSeq(GetAllEntries(sh).entries,
                           LAMBDA entry : IsStudent(entry, studentName))]

(***************************************************************************)
(* validateData: the list of error messages, in the order of the checks.   *)
(***************************************************************************)
CommentLimit == 500

SkillErrors(data) ==
    IF ~Truthy(data.skills) \/ TypeOf(data.skills) # "object"
    THEN <<"Learning skills are required">>
    ELSE LET missing(i) == ~Truthy(SkillRating(data, SkillNames[i]))
             RECURSIVE from(_)
             from(i) == IF i > Len(SkillNames) THEN <<>>
                        ELSE (IF missing(i)
                              THEN <<SkillNames[i] \o " rating is required">>
                              ELSE <<>>) \o from(i + 1)
         IN  from(1)

\* the length check with >= in place of >
CommentErrorsInclusive(data) ==
    IF ~Truthy(data.comment) THEN <<"Comment is required">>
    ELSE IF ~Greater(Num(CommentLimit), Length(data.comment))
         THEN <<"Comment must be 500 characters or less">>
         ELSE <<>>

CommentErrors(data) ==
    IF ~Truthy(data.comment) THEN <<"Comment is required">>
    ELSE IF Greater(Length(data.comment), Num(CommentLimit))
         THEN <<"Comment must be 500 characters or less">>
         ELSE <<>>

ValidateData(data) ==
    (IF ~Truthy(data.teacher) THEN <<"Teacher email is required">> ELSE <<>>)
    \o (IF ~Truthy(data.student) THEN <<"Student name is required">> ELSE <<>>)
    \o (IF ~Truthy(data.grade) THEN <<"Grade is required">> ELSE <<>>)
    \o SkillErrors(data)
    \o CommentErrors(data)

(***************************************************************************)
(* JSON.parse(e.postData.contents).  A request body is either text that is *)
(* not JSON or the JSON text of a value; decoding yields that value.  For  *)
(* text that is not JSON the engine throws a SyntaxError whose message is  *)
(* the engine's own: it differs from body to body and from one engine      *)
(* version to the next, so decoding has a set of outcomes.                 *)
(***************************************************************************)
Malformed(text) == [wellFormed |-> FALSE, value |-> Undefined, text |-> text]
Json(v) == [wellFormed |-> TRUE, value |-> v]

\* the bodies that are not JSON: a word, the empty text, an object left open
MalformedBodies == {Malformed("not json"), Malformed(""), Malformed("{")}

\* the messages engines give the SyntaxError of JSON.parse(text)
SyntaxErrors(text) ==
    CASE text = "" -> {"Unexpected end of JSON input"}
      [] text = "{" ->
            {"Unexpected end of JSON input",
             "Expected property name or '}' in JSON at position 1",
             "Expected property name or '}' in JSON at position 1 (line 1 column 2)"}
      [] OTHER ->
            {"Unexpected token o in JSON at position 1",
             "Unexpected token 'o', \"" \o text \o "\" is not valid JSON"}

\* the outcomes of JSON.parse(body): the value, or a SyntaxError
JSONParse(body) ==
    IF body.wellFormed
    THEN {[ok |-> TRUE, value |-> body.value, error |-> ""]}
    ELSE {[ok |-> FALSE, value |-> Undefined, error |-> message] :
             message \in SyntaxErrors(body.text)}

(***************************************************************************)
(* The payloads the requests of the model carry.                           *)
(***************************************************************************)
AllSkills(rating) == [t |-> "object", m |-> [k \in SkillSet |-> Str(rating)]]
Without(skills, k) ==
    [t |-> "object", m |-> [j \in DOMAIN skills.m \ {k} |-> skills.m[j]]]

\* the (student, course) pairs: student A with a course absent, empty and
\* named, and student B in the named course
Pairs ==
    {<<Str("A"), Undefined>>, <<Str("A"), Str("")>>, <<Str("A"), Str("X")>>,
     <<Str("B"), Str("X")>>}

\* a complete entry; it was absent for two classes and never late
FullDetail ==
    [timestamp |-> Str("2025-05-30T15:00:00.000Z"),
     teacher |-> Str("t1@school.edu"), teacherName |-> Str("Ms. Johnson"),
     grade |-> Str("7"),
     percentageMark |-> Num(85), classesMissed |-> Num(2), timesLate |-> Num(0),
     skills |-> AllSkills("Excellent"),
     comment |-> Str("Said \"good progress\".\nKeep going.")]

\* an entry that leaves out what it can: no marks, one rating and the comment
SparseDetail ==
    [timestamp |-> Undefined,
     teacher |-> Undefined, teacherName |-> Undefined, grade |-> Undefined,
     percentageMark |-> Undefined, classesMissed |-> Undefined,
     timesLate |-> Undefined,
     skills |-> Without(AllSkills("Good"), "Initiative"), comment |-> Str("")]

\* a complete entry with a comment one character over the limit
LongDetail ==
    [FullDetail EXCEPT !.teacher = Str("t2@school.edu"),
                       !.teacherName = Str("Lee, Sam"),
                       !.percentageMark = Num(0),
                       !.skills = AllSkills("Good"),
                       !.comment = Str(Repeat("x", CommentLimit + 1))]

Entry(student, course, d) ==
    [t |-> "object", student |-> student, course |-> course,
     timestamp |-> d.timestamp, teacher |-> d.teacher,
     teacherName |-> d.teacherName, grade |-> d.grade,
     percentageMark |-> d.percentageMark, classesMissed |-> d.classesMissed,
     timesLate |-> d.timesLate, skills |-> d.skills, comment |-> d.comment]

\* student A in every course with the complete entry, and with the sparse one
\* in the named course; student B with the long comment
Entries ==
    {Entry(k[1], k[2], FullDetail) : k \in Pairs \ {<<Str("B"), Str("X")>>}}
        \cup {Entry(Str("A"), Str("X"), SparseDetail)}
        \cup {Entry(Str("B"), Str("X"), LongDetail)}

\* a payload with no skills object
NoSkills == [Entry(Str("A"), Str("X"), FullDetail) EXCEPT !.skills = Undefined]

PostBodies ==
    MalformedBodies \cup {Json(Null), Json(NoSkills)} \cup {Json(e) : e \in Entries}

\* every body with the storage working, and a create and an update with it failing
PostRequests ==
    {[body |-> b, fault |-> "none"] : b \in PostBodies}
        \cup {[body |-> Json(Entry(Str("A"), Str("X"), FullDetail)), fault |-> "open"],
               [body |-> Json(Entry(Str("A"), Str("X"), SparseDetail)), fault |-> "write"]}

\* e.parameter of the GET requests
Parameter(action, teacher, student, callback) ==
    [action |-> action, teacher |-> teacher, student |-> student,
     callback |-> callback]

GetParameters ==
    {Parameter(Str("getAll"), Undefined, Undefined, cb) : cb \in {Undefined, Str("cb")}}
        \cup {Parameter(Undefined, Undefined, Undefined, Undefined)}
        \cup {Parameter(Str("getByTeacher"), Str("t1@school.edu"), Undefined, Undefined)}
        \cup {Parameter(Str("getByStudent"), Undefined, Str("A"), Undefined)}

\* every parameter with the storage working, and getAll with it failing
GetRequests ==
    {[parameter |-> q, fault |-> "none"] : q \in GetParameters}
        \cup {[parameter |-> Parameter(Str("getAll"), Undefined, Undefined, cb),
               fault |-> "open"] : cb \in {Undefined, Str("cb")}}

(***************************************************************************)
(* State after deployment: the spreadsheet has no Grades tab, or an empty  *)
(* one; no request was handled.                                            *)
(***************************************************************************)
Procs == 1..NumProcs

NoRequest == [op |-> "none"]

Init ==
    /\ sheetExists \in BOOLEAN
    /\ sheet = <<>>
    /\ clock = 0
    /\ clockReads = 0
    /\ request = NoRequest
    /\ response = Undefined
    /\ logged = <<>>
    /\ pc = [p \in Procs |-> "idle"]
    /\ inflight = [p \in Procs |-> Undefined]
    /\ existingRow = [p \in Procs |-> 0]
    /\ rowData = [p \in Procs |-> <<>>]
    /\ reply = [p \in Procs |-> Undefined]

concVars == <<pc, inflight, existingRow, rowData, reply>>

(***************************************************************************)
(* doPost: decode, saveGradeEntry, and the catch that shapes any failure.  *)
(***************************************************************************)
Failure(msg) == [success |-> FALSE, error |-> msg]

\* doPost up to its catch, when JSON.parse had the outcome parsed
PostOutcome(parsed, exists, sh, tick, elapsed, fault) ==
    IF parsed.ok THEN SaveGradeEntry(parsed.value, exists, sh, tick, elapsed, fault)
    ELSE Thrown(parsed.error, exists, sh, 0)

\* doPost without its catch: a thrown error yields no envelope
PostResponseUncaught(r) == r.result

PostResponse(r) == IF r.threw THEN Failure(r.error) ELSE r.result

\* the clock moves on only before a read that is made
Elapsed(n) == {e \in Advance \X Advance : \A i \in 1..2 : i > n => e[i] = 0}

DoPost(body, fault, elapsed) ==
    /\ clockReads < MaxReads
    /\ \E r \in {PostOutcome(parsed, sheetExists, sheet, clock, elapsed, fault) :
                    parsed \in JSONParse(body)} :
           /\ clockReads + r.reads <= MaxReads
           /\ elapsed \in Elapsed(r.reads)
           /\ sheetExists' = r.exists
           /\ sheet' = r.sheet
           /\ response' = PostResponse(r)
           /\ clock' = TimeAfter(clock, elapsed, r.reads)
           /\ clockReads' = clockReads + r.reads
    /\ request' = [op |-> "doPost", body |-> body, fault |-> fault]
    /\ logged' = <<>>
    /\ UNCHANGED concVars

(***************************************************************************)
(* doGet: the read actions, and the banner for any other action.           *)
(***************************************************************************)
GetResult(parameter, sh) ==
    CASE parameter.action = Str("getAll") -> GetAllEntries(sh)
      [] parameter.action = Str("getByTeacher") ->
            GetEntriesByTeacher(sh, parameter.teacher)
      [] parameter.action = Str("getByStudent") ->
            GetEntriesByStudent(sh, parameter.student)
      [] OTHER -> [message |-> "Report Card API is running. Available actions: getAll, getByTeacher, getByStudent"]

ReadsSheet(parameter) ==
    parameter.action \in {Str("getAll"), Str("getByTeacher"), Str("getByStudent")}

\* the output of doGet: the JSON value, inside a call of the callback when
\* the request names one (JSONP, MIME type JAVASCRIPT)
GetOutput(result, callback) ==
    IF Truthy(callback)
    THEN [mimeType |-> "JAVASCRIPT", callback |-> callback.s, content |-> result]
    ELSE result

\* what doGet makes of the request: the tab after it and the value it answers
GetOutcome(parameter, exists, sh, fault) ==
    IF ~ReadsSheet(parameter) THEN [exists |-> exists, sheet |-> sh,
                                    result |-> GetResult(parameter, sh)]
    ELSE IF fault = "open"
    THEN [exists |-> exists, sheet |-> sh,
          result |-> Failure("Service Spreadsheets failed while accessing document")]
    ELSE [exists |-> TRUE, sheet |-> GetOrCreateSheet(exists, sh),
          result |-> GetResult(parameter, GetOrCreateSheet(exists, sh))]

DoGet(parameter, fault) ==
    /\ \E r \in {GetOutcome(parameter, sheetExists, sheet, fault)} :
           /\ sheetExists' = r.exists
           /\ sheet' = r.sheet
           /\ response' = GetOutput(r.result, parameter.callback)
    /\ request' = [op |-> "doGet", parameter |-> parameter, fault |-> fault]
    /\ logged' = <<>>
    /\ UNCHANGED <<clock, clockReads, concVars>>

(***************************************************************************)
(* clearAllData: deleteRows(2, lastRow - 1).                               *)
(***************************************************************************)
ClearAllData ==
    /\ LET opened == GetOrCreateSheet(sheetExists, sheet)
       IN  /\ sheetExists' = TRUE
           /\ sheet' = IF Len(opened) > 1 THEN <<opened[1]>> ELSE opened
    /\ request' = [op |-> "clearAllData"]
    /\ response' = Undefined
    /\ logged' = <<>>
    /\ UNCHANGED <<clock, clockReads, concVars>>

\* the decoded payload of the request handled last, when it was a submission
IsPost == request.op = "doPost"
Payload == request.body.value
IsEntryPost == IsPost /\ request.body.wellFormed /\ Payload.t = "object"

\* the data rows: every row but the header row
DataRows(sh) == IF Len(sh) <= 1 THEN <<>> ELSE SubSeq(sh, 2, Len(sh))

(***************************************************************************)
(* testSaveEntry: saveGradeEntry on a sample entry, run from the editor;   *)
(* nothing catches what it throws.                                         *)
(***************************************************************************)
TestData(tick) ==
    [t |-> "object",
     teacher |-> Str("teacher1@school.edu"), teacherName |-> Str("Ms. Johnson"),
     course |-> Str("Math 7A"), student |-> Str("Test Student"),
     grade |-> Undefined,
     percentageMark |-> Num(85), classesMissed |-> Num(2), timesLate |-> Num(1),
     skills |-> [t |-> "object",
                 m |-> [k \in SkillSet |->
                          CASE k \in {"Organization", "Initiative"} -> Str("Good")
                            [] k = "Collaboration" -> Str("Satisfactory")
                            [] OTHER -> Str("Excellent")]],
     comment |-> Str("This is a test comment for the report card entry system."),
     timestamp |-> ToISOString(tick)]

Uncaught(msg) == [uncaught |-> msg]

\* line 459 reads the clock for testData.timestamp; saveGradeEntry reads it
\* once more, at line 146; the result goes to Logger.log (line 463) and the
\* function returns nothing
TestSaveEntry(fault, elapsed) ==
    /\ clockReads < MaxReads
    /\ \E r \in {SaveGradeEntry(TestData(clock + elapsed[1]), sheetExists, sheet,
                               clock + elapsed[1], <<elapsed[2]>>, fault)} :
           /\ clockReads + 1 + r.reads <= MaxReads
           /\ elapsed \in Elapsed(1 + r.reads)
           /\ sheetExists' = r.exists
           /\ sheet' = r.sheet
           /\ response' = IF r.threw THEN Uncaught(r.error) ELSE Undefined
           /\ logged' = IF r.threw THEN <<>> ELSE <<r.result>>
           /\ clock' = TimeAfter(clock + elapsed[1], <<elapsed[2]>>, r.reads)
           /\ clockReads' = clockReads + 1 + r.reads
    /\ request' = [op |-> "testSaveEntry", fault |-> fault]
    /\ UNCHANGED concVars

(***************************************************************************)
(* exportToCsv.                                                            *)
(***************************************************************************)
RECURSIVE Decimal(_)
Decimal(k) ==
    IF k < 10 THEN Digits[k + 1] ELSE Decimal(k \div 10) \o Digits[(k % 10) + 1]

\* String(cell)
StringOf(v) ==
    CASE v.t = "string" -> v.s
      [] v.t = "number" -> Decimal(v.n)
      [] OTHER -> v.t

\* str.includes(',') || str.includes('"') || str.includes('\n')
NeedsQuotes(str) == \E i \in 1..Len(str) : SubSeq(str, i, i) \in {",", "\"", "\n"}

\* str.replace(/"/g, '""')
RECURSIVE DoubleQuotes(_)
DoubleQuotes(str) ==
    IF Len(str) = 0 THEN ""
    ELSE IF Len(str) = 1 THEN (IF str = "\"" THEN "\"\"" ELSE str)
    ELSE LET half == Len(str) \div 2
         IN  DoubleQuotes(SubSeq(str, 1, half))
                 \o DoubleQuotes(SubSeq(str, half + 1, Len(str)))

CsvCell(v) ==
    LET str == StringOf(v) IN
    IF NeedsQuotes(str)
    THEN "\"" \o DoubleQuotes(str) \o "\""
    ELSE str

RECURSIVE JoinWith(_, _)
JoinWith(strs, sep) ==
    IF Len(strs) = 0 THEN ""
    ELSE IF Len(strs) = 1 THEN strs[1]
    ELSE strs[1] \o sep \o JoinWith(Tail(strs), sep)

CsvText(sh) ==
    Join([r \in 1..Len(sh) |->
            JoinWith([i \in 1..Len(sh[r]) |-> CsvCell(sh[r][i])], ",") \o "\n"])

ExportToCsv ==
    /\ \E opened \in {GetOrCreateSheet(sheetExists, sheet)} :
           /\ sheetExists' = TRUE
           /\ sheet' = opened
           /\ response' = Str(CsvText(opened))
    /\ request' = [op |-> "exportToCsv"]
    /\ logged' = <<>>
    /\ UNCHANGED <<clock, clockReads, concVars>>

(***************************************************************************)
(* generateSummaryReport.                                                  *)
(***************************************************************************)
\* the counter object built by the loop over the entries, keyed by String(key)
CountBy(entries, key) ==
    [k \in {StringOf(Field(entries[i], key)) : i \in 1..Len(entries)} |->
        Cardinality({i \in 1..Len(entries) : StringOf(Field(entries[i], key)) = k})]

RECURSIVE TotalCommentLength(_)
TotalCommentLength(entries) ==
    IF Len(entries) = 0 THEN 0
    ELSE Length(Or(Field(Head(entries), "comment"), Str(""))).n
            + TotalCommentLength(Tail(entries))

\* Math.round(a / b) of non-negative integers
RoundDiv(a, b) == (2 * a + b) \div (2 * b)

SummaryReport(entries) ==
    [totalEntries |-> Len(entries),
     byTeacher |-> CountBy(entries, "teacher_name"),
     byGrade |-> CountBy(entries, "grade"),
     averageCommentLength |->
        IF Len(entries) > 0 THEN RoundDiv(TotalCommentLength(entries), Len(entries))
        ELSE 0]

GenerateSummaryReport ==
    /\ \E opened \in {GetOrCreateSheet(sheetExists, sheet)} :
           /\ sheetExists' = TRUE
           /\ sheet' = opened
           /\ response' = SummaryReport(GetAllEntries(opened).entries)
    /\ request' = [op |-> "generateSummaryReport"]
    /\ logged' = <<>>
    /\ UNCHANGED <<clock, clockReads, concVars>>

Next ==
    \/ \E r \in PostRequests, elapsed \in Advance \X Advance :
          DoPost(r.body, r.fault, elapsed)
    \/ \E r \in GetRequests : DoGet(r.parameter, r.fault)
    \/ \E fault \in StorageFaults, elapsed \in Advance \X Advance :
          TestSaveEntry(fault, elapsed)
    \/ ClearAllData
    \/ ExportToCsv
    \/ GenerateSummaryReport

Spec == Init /\ [][Next]_vars

(***************************************************************************)
(* Concurrent executions of doPost.  Apps Script runs every request in its *)
(* own execution; each call on the spreadsheet is one step, and no lock is *)
(* held between them.                                                      *)
(***************************************************************************)
ConcBodies ==
    {Malformed("not json"), Json(Null), Json(NoSkills),
     Json(Entry(Str("A"), Str("X"), FullDetail)),
     Json(Entry(Str("A"), Str("X"), SparseDetail)),
     Json(Entry(Str("A"), Undefined, FullDetail)),
     Json(Entry(Str("B"), Str("X"), FullDetail))}

\* line 40: JSON.parse
Parse(p, body) ==
    /\ pc[p] = "idle"
    /\ \E parsed \in JSONParse(body) :
           IF parsed.ok
           THEN /\ inflight' = [inflight EXCEPT ![p] = parsed.value]
                /\ pc' = [pc EXCEPT ![p] = "open"]
                /\ reply' = reply
           ELSE /\ reply' = [reply EXCEPT ![p] = Failure(parsed.error)]
                /\ pc' = [pc EXCEPT ![p] = "done"]
                /\ inflight' = inflight
    /\ UNCHANGED <<logged, sheetExists, sheet, clock, clockReads, request, response,
                   existingRow, rowData>>

\* line 203: getSheetByName
Lookup(p) ==
    /\ pc[p] = "open"
    /\ pc' = [pc EXCEPT ![p] = IF sheetExists THEN "lastrow" ELSE "insert"]
    /\ UNCHANGED <<logged, sheetExists, sheet, clock, clockReads, request, response,
                   inflight, existingRow, rowData, reply>>

\* line 206: insertSheet throws when another execution has made the tab
Insert(p) ==
    /\ pc[p] = "insert"
    /\ IF sheetExists
       THEN /\ reply' = [reply EXCEPT ![p] =
                   Failure("A sheet with the name \"Grades\" already exists. "
                               \o "Please enter another name.")]
            /\ pc' = [pc EXCEPT ![p] = "done"]
            /\ UNCHANGED <<sheetExists, sheet>>
       ELSE /\ sheetExists' = TRUE
            /\ sheet' = <<>>
            /\ pc' = [pc EXCEPT ![p] = "headers"]
            /\ reply' = reply
    /\ UNCHANGED <<logged, clock, clockReads, request, response, inflight, existingRow, rowData>>

\* line 208: getLastRow
LastRow(p) ==
    /\ pc[p] = "lastrow"
    /\ pc' = [pc EXCEPT ![p] = IF Len(sheet) = 0 THEN "headers" ELSE "find"]
    /\ UNCHANGED <<logged, sheetExists, sheet, clock, clockReads, request, response,
                   inflight, existingRow, rowData, reply>>

\* lines 207, 209: setupSheetHeaders writes row 1
Headers(p) ==
    /\ pc[p] = "headers"
    /\ sheet' = SetupSheetHeaders(sheet)
    /\ pc' = [pc EXCEPT ![p] = "find"]
    /\ UNCHANGED <<logged, sheetExists, clock, clockReads, request, response,
                   inflight, existingRow, rowData, reply>>

\* line 123: findStudentRow reads the data range
Find(p) ==
    /\ pc[p] = "find"
    /\ IF inflight[p].t = "null"
       THEN /\ reply' = [reply EXCEPT ![p] =
                   Failure("Cannot read properties of null (reading 'student')")]
            /\ pc' = [pc EXCEPT ![p] = "done"]
            /\ existingRow' = existingRow
       ELSE /\ existingRow' = [existingRow EXCEPT ![p] =
                   FindStudentRow(sheet, inflight[p].student, inflight[p].course)]
            /\ pc' = [pc EXCEPT ![p] = "timestamp"]
            /\ reply' = reply
    /\ UNCHANGED <<logged, sheetExists, sheet, clock, clockReads, request, response, inflight, rowData>>

\* line 127, the first element of rowData: the payload's timestamp, or the
\* clock
Timestamp(p) ==
    /\ pc[p] = "timestamp"
    /\ \E d \in Advance :
          /\ d <= TimestampReads(inflight[p])
          /\ clock' = clock + d
          /\ rowData' = [rowData EXCEPT ![p] = <<TimestampCell(inflight[p], clock')>>]
    /\ clockReads' = clockReads + TimestampReads(inflight[p])
    /\ pc' = [pc EXCEPT ![p] = "build"]
    /\ UNCHANGED <<logged, sheetExists, sheet, request, response, inflight, existingRow, reply>>

\* lines 128-147: the other elements; the skills loop throws without a skills
\* object, line 146 reads the clock
Build(p) ==
    /\ pc[p] = "build"
    /\ IF SkillsThrow(inflight[p])
       THEN /\ reply' = [reply EXCEPT ![p] =
                   Failure("Cannot read properties of " \o inflight[p].skills.t
                               \o " (reading 'Responsibility')")]
            /\ pc' = [pc EXCEPT ![p] = "done"]
            /\ UNCHANGED <<clock, clockReads, rowData>>
       ELSE /\ \E d \in Advance :
                  /\ clock' = clock + d
                  /\ rowData' = [rowData EXCEPT ![p] =
                         RowData(inflight[p], rowData[p][1], ToISOString(clock'))]
            /\ clockReads' = clockReads + 1
            /\ pc' = [pc EXCEPT ![p] = "write"]
            /\ reply' = reply
    /\ UNCHANGED <<logged, sheetExists, sheet, request, response, inflight, existingRow>>

\* a write that looks the pair up again in the same step
RowToWriteLookedUpAgain(p) ==
    FindStudentRow(sheet, inflight[p].student, inflight[p].course)

\* the row number the write of lines 148-156 goes by: the one looked up before
RowToWrite(p) == existingRow[p]

\* lines 148-156: setValues on the row found, or appendRow
Write(p) ==
    /\ pc[p] = "write"
    /\ sheet' = WriteRow(sheet, RowToWrite(p), rowData[p])
    /\ reply' = [reply EXCEPT ![p] = SaveResult(RowToWrite(p), inflight[p])]
    /\ pc' = [pc EXCEPT ![p] = "done"]
    /\ UNCHANGED <<logged, sheetExists, clock, clockReads, request, response,
                   inflight, existingRow, rowData>>

NextConc ==
    \/ \E p \in Procs, body \in ConcBodies : Parse(p, body)
    \/ \E p \in Procs : Lookup(p)
    \/ \E p \in Procs : Insert(p)
    \/ \E p \in Procs : LastRow(p)
    \/ \E p \in Procs : Headers(p)
    \/ \E p \in Procs : Find(p)
    \/ \E p \in Procs : Timestamp(p)
    \/ \E p \in Procs : Build(p)
    \/ \E p \in Procs : Write(p)

SpecConc == Init /\ [][NextConc]_vars

(***************************************************************************)
(* validateData on its own: no handler calls it, so it is applied to       *)
(* payloads drawn by the initial state (skills absent, null, a string, or  *)
(* a mapping rating any subset of the learning skills).                    *)
(***************************************************************************)
SkillObjects ==
    {[t |-> "object", m |-> [k \in S |-> Str("Good")]] : S \in SUBSET SkillSet}
        \cup {[t |-> "object",
               m |-> [k \in SkillSet |->
                        IF k = "Initiative" THEN Str("") ELSE Str("Good")]]}

ValidationInputs ==
    {[t |-> "object", teacher |-> te, student |-> st, grade |-> gr,
      skills |-> sk, comment |-> co] :
        te \in {Undefined, Str(""), Str("t1@school.edu")},
        st \in {Undefined, Str("A")},
        gr \in {Undefined, Str("7")},
        sk \in {Undefined, Null, Str("Good")} \cup SkillObjects,
        co \in {Undefined, Str(""), Str("Good progress."),
                Str(Repeat("x", CommentLimit)), Str(Repeat("x", CommentLimit + 1))}}

InitValidate ==
    /\ sheetExists = FALSE
    /\ sheet = <<>>
    /\ clock = 0
    /\ clockReads = 0
    /\ request \in {[op |-> "validateData", data |-> d] : d \in ValidationInputs}
    /\ response = Undefined
    /\ logged = <<>>
    /\ pc = [p \in Procs |-> "idle"]
    /\ inflight = [p \in Procs |-> Undefined]
    /\ existingRow = [p \in Procs |-> 0]
    /\ rowData = [p \in Procs |-> <<>>]
    /\ reply = [p \in Procs |-> Undefined]

Validate ==
    /\ request.op = "validateData"
    /\ response = Undefined
    /\ response' = [errors |-> ValidateData(request.data)]
    /\ UNCHANGED <<logged, sheetExists, sheet, clock, clockReads, request, concVars>>

NextValidate == Validate

SpecValidate == InitValidate /\ [][NextValidate]_vars

(***************************************************************************)
(* The claims.                                                             *)
(***************************************************************************)
\* the submission a step handles, if it handles one: every handler records
\* what it handled in request, so a step that changes the state is a doPost
\* exactly when it leaves a submission there
Posted == IF request'.op = "doPost" THEN {request'} ELSE {}

\* the (student, course) cells of a stored row
PairOf(row) == <<row[studentCol + 1], row[courseCol + 1]>>

\* a value a payload carries, as opposed to a field it leaves out
Present(v) == v.t \notin {"undefined", "null"}

\* a cell holds the submitted value; a field left out leaves the cell empty
Holds(cell, v) ==
    IF Present(v) THEN cell = v ELSE cell \in {Undefined, Null, Str("")}

\* C1: after submissions handled one at a time the sheet holds at most one data
\* row per (student, course) pair, whatever student and course the payloads
\* carried (a course that is empty or absent included).
C1_OneRowPerPair ==
    \A i, j \in 2..Len(sheet) : i # j => PairOf(sheet[i]) # PairOf(sheet[j])

\* a submission whose decoded payload breaks a rule of validateData
InvalidPost(r) ==
    /\ r.body.wellFormed
    /\ r.body.value.t = "object"
    /\ ValidateData(r.body.value) # <<>>

\* C2: a submission that violates a validation rule is answered with a failure
\* that carries the validation errors, and leaves the data rows as they were.
C2_InvalidRejected ==
    [][\A r \in Posted :
          InvalidPost(r) =>
              /\ response'.success = FALSE
              /\ "validationErrors" \in DOMAIN response'
              /\ response'.validationErrors = ValidateData(r.body.value)
              /\ DataRows(sheet') = DataRows(sheet)]_vars

\* the columns between Timestamp and Last Modified hold the entry d
HoldsEntry(row, d) ==
    /\ Holds(row[2], d.teacher)
    /\ Holds(row[3], d.teacherName)
    /\ Holds(row[4], d.course)
    /\ Holds(row[5], d.student)
    /\ Holds(row[6], d.percentageMark)
    /\ Holds(row[7], d.classesMissed)
    /\ Holds(row[8], d.timesLate)
    /\ \A i \in 1..Len(SkillNames) :
          Holds(row[8 + i], SkillRating(d, SkillNames[i]))
    /\ Holds(row[NumCols - 1], d.comment)

\* a submission of an entry that the handler answers with success
SavedPost(r) ==
    /\ r.body.wellFormed
    /\ r.body.value.t = "object"
    /\ response'.success = TRUE

\* C3: when a submission arrives for a pair that already has a stored row, the
\* row of that pair afterwards holds the values of the new submission in every
\* column but Timestamp and Last Modified, empty where the submission leaves
\* a field out: nothing of the earlier submission survives.
C3_FullRowReplace ==
    [][\A r \in Posted :
          (/\ SavedPost(r)
           /\ \E i \in 2..Len(sheet) :
                 PairOf(sheet[i]) = <<r.body.value.student, r.body.value.course>>)
          => \A i \in 2..Len(sheet') :
                PairOf(sheet'[i]) = <<r.body.value.student, r.body.value.course>>
                    => HoldsEntry(sheet'[i], r.body.value)]_vars

\* the value a numeric field reads back as: the number, or empty when absent
NumberOrEmpty(v) == IF v.t = "number" THEN v ELSE Str("")

\* the record read back carries the values of the submitted entry d
SameEntry(e, d) ==
    /\ Field(e, "teacher_email") = d.teacher
    /\ Field(e, "teacher_name") = d.teacherName
    /\ Field(e, "course") = d.course
    /\ Field(e, "student_name") = d.student
    /\ Field(e, "percentage_mark") = NumberOrEmpty(d.percentageMark)
    /\ Field(e, "classes_missed") = NumberOrEmpty(d.classesMissed)
    /\ Field(e, "times_late") = NumberOrEmpty(d.timesLate)
    /\ Field(e, "skills") = d.skills
    /\ Field(e, "comment") = d.comment

\* C5: a valid entry written by saveGradeEntry and read back by getAllEntries
\* (rowToObject) carries the submitted value in every field but timestamp and
\* lastModified; a numeric field recorded as zero reads back as zero.
C5_RoundTrip ==
    (/\ IsEntryPost
     /\ ValidateData(Payload) = <<>>
     /\ Payload.course.t = "string"
     /\ response.success = TRUE)
    => \E i \in 1..Len(GetAllEntries(sheet).entries) :
          SameEntry(GetAllEntries(sheet).entries[i], Payload)

\* the stored entries of student n, in storage order
StoredOfStudent(sh, n) ==
    LET rows == SelectSeq(DataRows(sh), LAMBDA row : row[studentCol + 1] = n)
    IN  [i \in 1..Len(rows) |-> RowToObject(sh[1], rows[i])]

\* C6: getByStudent with name n returns success with exactly the stored entries
\* whose student name equals n, in storage order.
C6_GetByStudentExact ==
    (/\ request.op = "doGet"
     /\ request.parameter.action = Str("getByStudent")
     /\ request.parameter.student.t = "string"
     /\ request.parameter.callback = Undefined
     /\ request.fault = "none")
    => response = [success |-> TRUE,
                   entries |-> StoredOfStudent(sheet, request.parameter.student)]

\* C4: a submission for the pair (s, c) leaves every stored row of another pair
\* as and where it is; when no stored row has the pair, the submission reports
\* 'created' and the sheet gains one row, so (A, X) and then (A, Y) make two.
C4_DistinctKeysNeverCollide ==
    [][\A r \in Posted :
          (r.body.wellFormed /\ r.body.value.t = "object")
          => LET pair == <<r.body.value.student, r.body.value.course>>
                 others == {i \in 2..Len(sheet) : PairOf(sheet[i]) # pair}
             IN  /\ \A i \in others : i <= Len(sheet') /\ sheet'[i] = sheet[i]
                 /\ (others = 2..Len(sheet) /\ response'.success = TRUE)
                        => /\ response'.action = "created"
                           /\ Len(DataRows(sheet')) = Len(DataRows(sheet)) + 1]_vars

\* student A was submitted in course "" and then in course X: two rows
C4_TwoCoursesTwoRows ==
    /\ IsEntryPost
    /\ response.success = TRUE
    /\ response.action = "created"
    /\ Payload.student = Str("A")
    /\ Payload.course = Str("X")
    /\ Len(sheet) = 3
    /\ PairOf(sheet[2]) = <<Str("A"), Str("")>>
    /\ PairOf(sheet[3]) = <<Str("A"), Str("X")>>

\* a request whose handling raises: the body is not JSON, the payload is null
\* or has no skills object, or the spreadsheet service fails
RaisesFailure(r) ==
    \/ ~r.body.wellFormed
    \/ r.body.value.t = "null"
    \/ SkillsThrow(r.body.value)
    \/ r.fault # "none"

\* the messages of the error raised first while r is handled: the decoding
\* error of the engine, the failure of opening the sheet, the TypeError of
\* reading a property of null or of a missing skills object, the failure of
\* the write
RaisedMessages(r) ==
    IF ~r.body.wellFormed THEN SyntaxErrors(r.body.text)
    ELSE IF r.fault = "open"
    THEN {"Service Spreadsheets failed while accessing document"}
    ELSE IF r.body.value.t = "null"
    THEN {"Cannot read properties of null (reading 'student')"}
    ELSE IF r.body.value.skills.t = "undefined"
    THEN {"Cannot read properties of undefined (reading 'Responsibility')"}
    ELSE IF r.body.value.skills.t = "null"
    THEN {"Cannot read properties of null (reading 'Responsibility')"}
    ELSE {"Service Spreadsheets timed out while accessing document"}

\* C7: every failure raised while a submission is handled is answered with the
\* envelope {success: false, error: message}, where message is the message of
\* the error raised, and leaves the data rows as they were.
C7_FailuresCaught ==
    [][\A r \in Posted :
          RaisesFailure(r)
          => /\ DOMAIN response' = {"success", "error"}
             /\ response'.success = FALSE
             /\ response'.error # ""
             /\ response'.error \in RaisedMessages(r)
             /\ DataRows(sheet') = DataRows(sheet)]_vars

\* a null payload was answered with a failure while the sheet held data rows
C7_NullPayloadRejected ==
    /\ IsPost
    /\ request.body = Json(Null)
    /\ DOMAIN response = {"success", "error"}
    /\ response.success = FALSE
    /\ Len(sheet) >= 2

\* a field that is absent or empty
Missing(v) == v \in {Undefined, Null, Str("")}

\* one message per violated rule of validateData
ExpectedMessages(d) ==
    (IF Missing(d.teacher) THEN {"Teacher email is required"} ELSE {})
    \cup (IF Missing(d.student) THEN {"Student name is required"} ELSE {})
    \cup (IF Missing(d.grade) THEN {"Grade is required"} ELSE {})
    \cup (IF d.skills.t # "object" THEN {"Learning skills are required"}
          ELSE {k \o " rating is required" :
                  k \in {j \in SkillSet :
                            j \notin DOMAIN d.skills.m \/ Missing(d.skills.m[j])}})
    \cup (IF Missing(d.comment) THEN {"Comment is required"}
          ELSE IF Len(d.comment.s) > 500
               THEN {"Comment must be 500 characters or less"}
               ELSE {})

\* C8: validateData returns one message for every violated rule and no other:
\* teacher email, student, grade, each skill without a rating (or the general
\* message when skills is no mapping), and for the comment the presence error
\* when absent or empty, the length error when longer than 500 characters,
\* never both; the list is empty exactly when no rule is violated.
C8_EveryViolationReported ==
    (request.op = "validateData" /\ response # Undefined)
    => LET errs == response.errors
       IN  /\ {errs[i] : i \in 1..Len(errs)} = ExpectedMessages(request.data)
           /\ Len(errs) = Cardinality(ExpectedMessages(request.data))
           /\ ~(/\ "Comment is required" \in {errs[i] : i \in 1..Len(errs)}
                /\ "Comment must be 500 characters or less"
                      \in {errs[i] : i \in 1..Len(errs)})

\* teacher email, student and grade missing, two skills unrated and a comment
\* of 501 characters: six messages, the length error last
C8_SixMessages ==
    /\ request.op = "validateData"
    /\ response # Undefined
    /\ Missing(request.data.teacher)
    /\ Missing(request.data.student)
    /\ Missing(request.data.grade)
    /\ request.data.skills.t = "object"
    /\ Cardinality(DOMAIN request.data.skills.m) = 4
    /\ Len(request.data.comment.s) = 501
    /\ Len(response.errors) = 6
    /\ response.errors[6] = "Comment must be 500 characters or less"

\* execution p ran to the end and reported success
Saved(p) ==
    /\ pc[p] = "done"
    /\ "action" \in DOMAIN reply[p]

\* the data rows holding the pair of payload d (an absent course is stored empty)
RowsOfPair(sh, d) ==
    {i \in 2..Len(sh) : PairOf(sh[i]) = <<d.student, Or(d.course, Str(""))>>}

\* C9: when two executions for the same pair both looked the pair up and found
\* no row, both append: both report 'created' and the sheet holds two data
\* rows for the pair.  Nothing makes the lookup and the write one step.
C9_BothAppend ==
    \A p, q \in Procs :
        (/\ p # q
         /\ Saved(p) /\ Saved(q)
         /\ inflight[p].student = inflight[q].student
         /\ inflight[p].course = inflight[q].course
         /\ existingRow[p] = 0 /\ existingRow[q] = 0)
        => /\ reply[p].action = "created"
           /\ reply[q].action = "created"
           /\ Cardinality(RowsOfPair(sheet, inflight[p])) >= 2

\* two executions for (A, X) both reported 'created': two rows for the pair
C9_DuplicateRow ==
    \E p, q \in Procs :
        /\ p # q
        /\ Saved(p) /\ Saved(q)
        /\ inflight[p].student = Str("A") /\ inflight[q].student = Str("A")
        /\ inflight[p].course = Str("X") /\ inflight[q].course = Str("X")
        /\ reply[p].action = "created" /\ reply[q].action = "created"
        /\ Cardinality({i \in 2..Len(sheet) :
                          PairOf(sheet[i]) = <<Str("A"), Str("X")>>}) = 2

\* the student and course of every entry getAllEntries returns, in order
ListedPairs(sh) ==
    LET entries == GetAllEntries(sh).entries
        Listed(entry) == <<Field(entry, "student_name"), Field(entry, "course")>>
    IN  [i \in 1..Len(entries) |-> Listed(entries[i])]

\* C10: a submission leaves every data row but the one it writes unchanged and
\* in place: an update overwrites one row where it is and keeps the number of
\* rows, a create adds one row after the last.  getAllEntries therefore lists
\* the entries in the order in which their pairs were first submitted.
C10_FrameAndOrder ==
    [][\A r \in Posted :
          LET before == DataRows(sheet)
              after == DataRows(sheet')
              n == Len(before)
              listed == ListedPairs(sheet)
          IN  /\ \/ after = before /\ response'.success = FALSE
                 \/ /\ response'.success = TRUE
                    /\ response'.action = "updated"
                    /\ Len(after) = n
                    /\ \E k \in 1..n : \A i \in 1..n \ {k} : after[i] = before[i]
                 \/ /\ response'.success = TRUE
                    /\ response'.action = "created"
                    /\ Len(after) = n + 1
                    /\ SubSeq(after, 1, n) = before
              /\ SubSeq(ListedPairs(sheet'), 1, Len(listed)) = listed]_vars

\* the first data row was updated by the last submission while a row that was
\* written before it still follows it
C10_UpdatedInPlace ==
    /\ IsEntryPost
    /\ response.success = TRUE
    /\ response.action = "updated"
    /\ Len(sheet) >= 3
    /\ FindStudentRow(sheet, Payload.student, Payload.course) = 2
    /\ sheet[2][NumCols] = ToISOString(clock)
    /\ sheet[3][NumCols] # ToISOString(clock)

====
